---- MODULE Spec2Model ----
(***************************************************************************)
(* Convergence analysis of Well-Tempered Metadynamics output               *)
(* (scripts/analyze_convergence.py): the record loader, the time-resolved  *)
(* DeltaG tracker and the local-minimum detector, as state machines.       *)
(***************************************************************************)
EXTENDS Integers, Sequences, FiniteSets, TLC

\* ------------------------------------------------------------------ bounds
MaxLines == 2
MaxLineLen == 3
MaxT == 2          \* largest time value (ps) in COLVAR and HILLS
MaxHills == 2      \* most rows of the HILLS table
MaxBlocks == 3     \* largest --n-blocks
MaxRows == 2       \* most rows of a window's FES file
MaxFes == 1        \* largest energy in a window's FES file
MaxLen == 10       \* most grid points of the full FES
MaxE == 2          \* largest energy of the full FES
MaxHillsRows == 2  \* most rows of the HILLS table given to the bias-decay analysis
MaxCols == 3       \* most columns of that table
MaxSpans == 4      \* most entries of deltaG_data['deltaG']
MaxMinima == 2     \* most minima in deltaG_data['minima']
MaxSeries == 4     \* longest series given to block_averaging
MaxB == 3          \* largest n_blocks given to block_averaging
MaxSel == 5        \* longest atom selection string
MaxRunT == 1       \* largest total_time of a concurrent run
MaxRunBlocks == 2  \* largest n_blocks of a concurrent run
MaxHalf == 3       \* largest time bound given to run_sum_hills, in halves of a ps
MaxBounds == 2     \* most time bounds given to run_sum_hills

VARIABLES
    \* load_plumed_file
    filepath,      \* the path given to the loader
    line,          \* the line last read from the file (raw)
    nread,         \* lines read so far
    data,          \* rows collected so far (list of lists of floats)
    lpc,           \* "reading" | "returned" | "exit1" | "raised"
    stderr,        \* messages written to sys.stderr
    wanted,        \* history: the rows of the data lines read so far
    \* compute_deltaG_vs_time
    total_time,    \* time[-1] of the COLVAR table
    n_blocks,      \* the number of windows
    hills,         \* column 0 of the HILLS table
    k,             \* the window the loop is at: t_block = k * total_time / n_blocks
    tpc,           \* "loop" | "run" | "clean" | "return" | "exit1" | "raised"
    tmpfiles,      \* the files of this run that exist under /tmp
    result,        \* the last subprocess result and what it left in temp_fes
    deltaG_values, \* the (t_block, delta_g) pairs appended so far
    windows,       \* history: per window, whether it had records and a profile
    \* find_fes_minima and its caller
    fes_data,      \* data[:, 1] of the FES file, one energy per grid point
    energy_window_kj, \* the barrier threshold
    have_scipy,    \* whether `from scipy.signal import argrelmin` succeeds
    mpc,           \* "start" | "filter" | "returned" | "reported"
    fes_vals,      \* the energies, normalized to a minimum of 0
    local_min_idx, \* the candidate indices (1-based), ascending
    filtered,      \* the retained indices so far
    pos,           \* the position in local_min_idx the filter loop is at
    minima,        \* the value returned
    report,        \* what main prints for the minima section
    \* block_averaging
    ba_data,       \* the series (data)
    ba_n_blocks,   \* the block count (n_blocks)
    bpc,           \* "start" | "returned"
    block_means,   \* the list returned third, each mean a fraction
    mean,          \* the value returned first, a fraction
    stderr2,       \* the square of the value returned second, a fraction
    \* analyze_hills_convergence
    hills_table,   \* the rows of the HILLS file
    hills_conv,    \* the dict returned
    hpc,           \* "start" | "returned"
    \* main, save_data_files, save_convergence_report
    mainpc,        \* the step main is at, or "done" | "exit1" | "raised"
    no_fes,        \* args.no_fes
    colvar,        \* whether --colvar was given
    plumed,        \* "absent" | "failing" | "ok": the plumed executable
    fes_file,      \* what is at <output_dir>/metad_fes.dat
    deltaG_data,   \* the dict main passes to the two save functions
    written,       \* the files written under output_dir
    convergence_report, \* the verdict lines of convergence_report.txt
    stdout,        \* the warning lines main prints
    \* run_sum_hills
    time_blocks,   \* None, or the list of time bounds (in halves of a ps)
    hills_file,    \* column 0 of the file at hills_file
    requests,      \* the plumed sum_hills commands run so far
    fes_files,     \* the list returned
    spc,           \* "start" | "blocks" | "returned"
    tb_i,          \* the position in time_blocks the loop is at
    \* plot_deltaG_convergence
    dg_file,       \* the file at dg_file: whether it exists, its data rows
    ppc,           \* "start" | "loaded" | "columns" | "returned" | "raised"
    plot_data,     \* the shape of the array np.loadtxt returned
    plotted,       \* what was drawn and saved
    \* validate_atom_selection
    atoms_str,     \* the argument
    valid,         \* the value returned
    vpc,           \* "start" | "returned"
    \* two runs of compute_deltaG_vs_time on one machine
    run_conf,      \* per run, its total_time and n_blocks
    run_k,         \* per run, the window its loop is at
    run_pc,        \* per run, "loop" | "run" | "read" | "clean" | "return"
    tmp,           \* /tmp: per file name, the run that wrote it, 0 for none
    foreign        \* history: the accesses of a run to a file of the other

loaderVars == <<filepath, line, nread, data, lpc, wanted>>
trackerVars == <<total_time, n_blocks, hills, k, tpc, tmpfiles, result,
                 deltaG_values, windows>>
minimaVars == <<fes_data, energy_window_kj, have_scipy, mpc, fes_vals,
                local_min_idx, filtered, pos, minima, report>>
blocksVars == <<ba_data, ba_n_blocks, bpc, block_means, mean, stderr2>>
hillsVars == <<hills_table, hills_conv, hpc>>
mainVars == <<mainpc, no_fes, colvar, plumed, fes_file, deltaG_data, written,
              convergence_report, stdout>>
sumHillsVars == <<time_blocks, hills_file, requests, fes_files, spc, tb_i>>
plotVars == <<dg_file, ppc, plot_data, plotted>>
validateVars == <<atoms_str, valid, vpc>>
runsVars == <<run_conf, run_k, run_pc, tmp, foreign>>
notLoader == <<trackerVars, minimaVars, blocksVars, hillsVars, mainVars,
    sumHillsVars, plotVars, validateVars, runsVars>>
notTracker == <<loaderVars, minimaVars, blocksVars, hillsVars, mainVars,
    sumHillsVars, plotVars, validateVars, runsVars>>
notMinima == <<loaderVars, trackerVars, stderr, blocksVars, hillsVars, mainVars,
    sumHillsVars, plotVars, validateVars, runsVars>>
notBlocks == <<loaderVars, trackerVars, minimaVars, stderr, hillsVars, mainVars,
    sumHillsVars, plotVars, validateVars, runsVars>>
notHills == <<loaderVars, trackerVars, minimaVars, stderr, blocksVars,
    sumHillsVars, plotVars, validateVars, runsVars>>
notMain == <<loaderVars, trackerVars, minimaVars, blocksVars, hpc,
    sumHillsVars, plotVars, validateVars, runsVars>>
notSumHills == <<loaderVars, trackerVars, minimaVars, blocksVars,
                 hillsVars, mainVars, plotVars, validateVars, runsVars>>
notPlot == <<loaderVars, trackerVars, minimaVars, stderr, blocksVars,
             hillsVars, mainVars, sumHillsVars, validateVars, runsVars>>
notValidate == <<loaderVars, trackerVars, minimaVars, stderr, blocksVars,
                 hillsVars, mainVars, sumHillsVars, plotVars, runsVars>>
notRuns == <<loaderVars, trackerVars, minimaVars, stderr, blocksVars,
             hillsVars, mainVars, sumHillsVars, plotVars, validateVars>>
vars == <<filepath, line, nread, data, lpc, stderr, wanted,
          total_time, n_blocks, hills, k, tpc, tmpfiles, result,
          deltaG_values, windows,
          fes_data, energy_window_kj, have_scipy, mpc, fes_vals,
          local_min_idx, filtered, pos, minima, report,
          ba_data, ba_n_blocks, bpc, block_means, mean, stderr2,
          hills_table, hills_conv, hpc,
          mainpc, no_fes, colvar, plumed, fes_file, deltaG_data, written,
          convergence_report, stdout,
          time_blocks, hills_file, requests, fes_files, spc, tb_i,
          dg_file, ppc, plot_data, plotted,
          atoms_str, valid, vpc,
          run_conf, run_k, run_pc, tmp, foreign>>

\* ------------------------------------------------------- load_plumed_file
\* Characters of a line: blank, the comment marker, the metadata marker,
\* a digit, and a character no float contains.
Alphabet == {" ", "#", "@", "1", "x"}

Lines == UNION {[1..n -> Alphabet] : n \in 0..MaxLineLen}

Paths == {"HILLS", "COLVAR"}

RECURSIVE LStrip(_)
LStrip(s) == IF s # <<>> /\ Head(s) = " " THEN LStrip(Tail(s)) ELSE s

RECURSIVE RStrip(_)
RStrip(s) == IF s # <<>> /\ s[Len(s)] = " " THEN RStrip(SubSeq(s, 1, Len(s) - 1)) ELSE s

\* str.strip()
Strip(s) == RStrip(LStrip(s))

\* str.startswith(c) for a one-character prefix
StartsWith(s, c) == s # <<>> /\ Head(s) = c

\* the first whitespace-delimited token of a line with no leading blank
RECURSIVE FirstToken(_)
FirstToken(s) ==
    IF s = <<>> \/ Head(s) = " " THEN <<>> ELSE <<Head(s)>> \o FirstToken(Tail(s))

\* str.split(): the whitespace-separated tokens, none of them empty
RECURSIVE Split(_)
Split(s) ==
    LET t == LStrip(s) IN
    IF t = <<>> THEN <<>>
    ELSE LET tok == FirstToken(t) IN
         <<tok>> \o Split(SubSeq(t, Len(tok) + 1, Len(t)))

\* float(x) raises ValueError unless the token is a number
IsFloat(tok) == tok # <<>> /\ \A i \in 1..Len(tok) : tok[i] = "1"

\* float(x): the value of a numeric token
RECURSIVE FloatOf(_)
FloatOf(tok) ==
    IF tok = <<>> THEN 0 ELSE 10 * FloatOf(SubSeq(tok, 1, Len(tok) - 1)) + 1

\* the condition of the `continue` at the top of the loop body
SkipLine(s) == s = <<>> \/ StartsWith(s, "#") \/ StartsWith(s, "@")

\* the try block: the row of floats; ok is FALSE when float() raises
\* ValueError on some token
ParseRowDropsBadTokens(s) ==
    LET toks == SelectSeq(Split(s), IsFloat) IN
    [ok |-> TRUE, values |-> [i \in 1..Len(toks) |-> FloatOf(toks[i])]]

ParseRow(s) ==
    LET toks == Split(s) IN
    IF \A i \in 1..Len(toks) : IsFloat(toks[i])
    THEN [ok |-> TRUE, values |-> [i \in 1..Len(toks) |-> FloatOf(toks[i])]]
    ELSE [ok |-> FALSE, values |-> <<>>]

\* the rows after one pass of the loop body over the raw line l
AfterLine(rows, l) ==
    LET s == Strip(l) IN
    IF SkipLine(s) THEN rows
    ELSE IF ParseRow(s).ok THEN Append(rows, ParseRow(s).values)
    ELSE rows

\* np.array(data) is a 2-D table only when all rows have one length
Rectangular(rows) == \A i, j \in 1..Len(rows) : Len(rows[i]) = Len(rows[j])

\* History definitions: what the specification says of the input, kept
\* beside the program's state so that the two can be compared.
\* the data lines as the specification describes them: after trimming,
\* non-empty, not a comment, not metadata, every token a float
IsDataLine(l) ==
    LET s == Strip(l) IN
    /\ s # <<>>
    /\ s[1] # "#"
    /\ s[1] # "@"
    /\ \A i \in 1..Len(Split(s)) : IsFloat(Split(s)[i])

RowOf(l) == LET toks == Split(Strip(l)) IN [i \in 1..Len(toks) |-> FloatOf(toks[i])]

\* the span of a profile as the specification states it: its largest
\* energy minus its smallest
SpanOf(prof) ==
    LET hi == CHOOSE i \in 1..Len(prof) : \A j \in 1..Len(prof) : prof[j] <= prof[i]
        lo == CHOOSE i \in 1..Len(prof) : \A j \in 1..Len(prof) : prof[i] <= prof[j] IN
    prof[hi] - prof[lo]

\* the loader's variables while another function is modelled
LoaderIdle ==
    /\ filepath = "HILLS"
    /\ line = <<>>
    /\ nread = 0
    /\ data = <<>>
    /\ lpc = "idle"
    /\ wanted = <<>>

\* find_fes_minima returning None
NoResult == [none |-> TRUE, cv |-> <<>>, energies |-> <<>>, deltaG_pairs |-> <<>>, n_minima |-> 0]

\* the detector's variables while another function is modelled
MinimaIdle ==
    /\ fes_data = <<>>
    /\ energy_window_kj = 0
    /\ have_scipy = TRUE
    /\ mpc = "idle"
    /\ fes_vals = <<>>
    /\ local_min_idx = <<>>
    /\ filtered = <<>>
    /\ pos = 0
    /\ minima = NoResult
    /\ report = "nothing"

\* the tracker's variables while another function is modelled
TrackerIdle ==
    /\ total_time = 0
    /\ n_blocks = 1
    /\ hills = <<>>
    /\ k = 0
    /\ tpc = "idle"
    /\ tmpfiles = {}
    /\ result = [rc |-> 0, out |-> "none"]
    /\ deltaG_values = <<>>
    /\ windows = <<>>

\* a fraction num/den, den > 0
Frac(n, d) == [num |-> n, den |-> d]

\* the averager's variables while another function is modelled
BlocksIdle ==
    /\ ba_data = <<>>
    /\ ba_n_blocks = 1
    /\ bpc = "idle"
    /\ block_means = <<>>
    /\ mean = Frac(0, 1)
    /\ stderr2 = Frac(0, 1)

\* hills_conv before analyze_hills_convergence has returned
NoConv == [n_gaussians |-> 0, h_initial |-> 0, h_final |-> 0,
           h_ratio |-> Frac(0, 1), total_time_ps |-> 0]

\* the bias-decay analysis while another function is modelled
HillsIdle ==
    /\ hills_table = <<>>
    /\ hills_conv = NoConv
    /\ hpc = "idle"

\* deltaG_data = {'times': [], 'deltaG': [], 'minima': None}
NoDeltaG == [deltaG |-> <<>>, minima |-> 0]

\* main's variables while a function is modelled on its own
MainIdle ==
    /\ mainpc = "idle"
    /\ no_fes = FALSE
    /\ colvar = FALSE
    /\ plumed = "ok"
    /\ fes_file = "missing"
    /\ deltaG_data = NoDeltaG
    /\ written = {}
    /\ convergence_report = <<>>
    /\ stdout = <<>>

\* run_sum_hills while another function is modelled
SumHillsIdle ==
    /\ time_blocks = [none |-> TRUE, bounds |-> <<>>]
    /\ hills_file = <<>>
    /\ requests = <<>>
    /\ fes_files = <<>>
    /\ spc = "idle"
    /\ tb_i = 0

\* plot_deltaG_convergence while another function is modelled
PlotIdle ==
    /\ dg_file = [exists |-> FALSE, rows |-> <<>>]
    /\ ppc = "idle"
    /\ plot_data = [ndim |-> 0, shape |-> <<>>]
    /\ plotted = [band |-> FALSE, saved |-> FALSE]

\* validate_atom_selection while another function is modelled
ValidateIdle ==
    /\ atoms_str = <<>>
    /\ valid = FALSE
    /\ vpc = "idle"

\* no concurrent runs while one function is modelled
RunsIdle ==
    /\ run_conf = <<>>
    /\ run_k = <<>>
    /\ run_pc = <<>>
    /\ tmp = <<>>
    /\ foreign = {}

\* the functions outside analyze_convergence.py's main path, idle
OthersIdle == SumHillsIdle /\ PlotIdle /\ ValidateIdle /\ RunsIdle

LoaderInit ==
    /\ filepath \in Paths
    /\ line = <<>>
    /\ nread = 0
    /\ data = <<>>
    /\ lpc = "reading"
    /\ stderr = <<>>
    /\ wanted = <<>>
    /\ TrackerIdle
    /\ MinimaIdle
    /\ BlocksIdle
    /\ HillsIdle
    /\ MainIdle
    /\ OthersIdle

\* one iteration of `for line in f`
ReadLine ==
    /\ lpc = "reading"
    /\ nread < MaxLines
    /\ \E l \in Lines :
        /\ line' = l
        /\ data' = AfterLine(data, l)
        /\ wanted' = IF IsDataLine(l) THEN Append(wanted, RowOf(l)) ELSE wanted
    /\ nread' = nread + 1
    /\ UNCHANGED <<filepath, lpc, stderr>>
    /\ UNCHANGED notLoader

\* end of file with no row collected: message on stderr, sys.exit(1)
EofNoDataSilent ==
    /\ lpc = "reading"
    /\ data = <<>>
    /\ lpc' = "exit1"
    /\ UNCHANGED <<filepath, line, nread, data, stderr, wanted>>
    /\ UNCHANGED notLoader

EofNoData ==
    /\ lpc = "reading"
    /\ data = <<>>
    /\ stderr' = Append(stderr, [level |-> "ERROR", path |-> filepath])
    /\ lpc' = "exit1"
    /\ UNCHANGED <<filepath, line, nread, data, wanted>>
    /\ UNCHANGED notLoader

\* end of file with rows of one length: the table is returned
EofReturn ==
    /\ lpc = "reading"
    /\ data # <<>>
    /\ Rectangular(data)
    /\ lpc' = "returned"
    /\ UNCHANGED <<filepath, line, nread, data, stderr, wanted>>
    /\ UNCHANGED notLoader

\* end of file with rows of different lengths: np.array either raises
\* ValueError (numpy >= 1.24) or returns an array of row objects
EofRagged ==
    /\ lpc = "reading"
    /\ data # <<>>
    /\ ~Rectangular(data)
    /\ lpc' \in {"raised", "returned"}
    /\ UNCHANGED <<filepath, line, nread, data, stderr, wanted>>
    /\ UNCHANGED notLoader

LoaderNext == ReadLine \/ EofNoData \/ EofReturn \/ EofRagged

SpecLoader == LoaderInit /\ [][LoaderNext]_vars

\* ------------------------------------------------- compute_deltaG_vs_time
\* Times are integers (ps); the k-th element of
\* np.linspace(total_time / n_blocks, total_time, n_blocks) is the rational
\* k * total_time / n_blocks, kept as its numerator over n_blocks.
BlockNum(kk) == kk * total_time

LinspaceFromZero(T, N, kk) ==
    IF N - 1 > 0 THEN Frac((kk - 1) * T, N - 1) ELSE Frac(0, 1)

\* np.linspace(total_time / n_blocks, total_time, n_blocks)[kk - 1]:
\* start + (kk - 1) * (stop - start) / (num - 1), the last element set to
\* stop; with num = 1 the one element is start
Linspace(T, N, kk) ==
    IF N - 1 > 0
    THEN IF kk = N THEN Frac(T, 1)
         ELSE Frac(T * (N - 1) + (kk - 1) * (T * N - T), N * (N - 1))
    ELSE Frac(T, N)

\* hills[:, 0] <= t_block, as the indices of the rows kept
Mask(kk) == {i \in 1..Len(hills) : hills[i] * n_blocks <= BlockNum(kk)}

\* f"{t_block:.0f}": the nearest integer, ties to the even one
RoundHalfEven(num, den) ==
    LET q == num \div den
        r == num % den IN
    IF 2 * r < den THEN q
    ELSE IF 2 * r > den THEN q + 1
    ELSE IF q % 2 = 0 THEN q ELSE q + 1

TempHills(kk) == [kind |-> "hills_block", tag |-> RoundHalfEven(BlockNum(kk), n_blocks)]
TempFes(kk) == [kind |-> "fes_block", tag |-> RoundHalfEven(BlockNum(kk), n_blocks)]

\* what plumed sum_hills leaves at --outfile: nothing, a file with no data
\* row, a file whose rows differ in length, or a table
OutKinds == {"none", "empty", "ragged", "table"}

\* the energies of a FES table, one per grid point
Profiles == UNION {[1..n -> 0..MaxFes] : n \in 1..MaxRows}

\* the rows (cv, energy) of a FES file on the grid 0, 1, 2, ...
Table(prof) == [i \in 1..Len(prof) |-> <<i - 1, prof[i]>>]

\* fes[:, -1]
LastColumn(tab) == [i \in 1..Len(tab) |-> tab[i][Len(tab[i])]]

\* np.max, np.min
NpMax(v) == CHOOSE x \in {v[i] : i \in 1..Len(v)} : \A i \in 1..Len(v) : v[i] <= x
NpMin(v) == CHOOSE x \in {v[i] : i \in 1..Len(v)} : \A i \in 1..Len(v) : x <= v[i]

\* delta_g = np.max(fes_values) - np.min(fes_values)
DeltaG(tab) == NpMax(LastColumn(tab)) - NpMin(LastColumn(tab))

\* result.returncode == 0 and os.path.exists(temp_fes)
FesReadableIgnoringExit(rc, files, kk) == TempFes(kk) \in files

FesReadable(rc, files, kk) == rc = 0 /\ TempFes(kk) \in files

\* sorted tables of times: the HILLS rows in deposition order; the table
\* has a row, main having loaded it in analyze_hills_convergence before
SortedSeqs(n, hi) ==
    {h \in [1..n -> 0..hi] : \A i \in 1..(n - 1) : h[i] <= h[i + 1]}

TrackerInit ==
    /\ total_time \in 0..MaxT
    /\ n_blocks \in 1..MaxBlocks
    /\ hills \in UNION {SortedSeqs(n, MaxT) : n \in 1..MaxHills}
    /\ k = 1
    /\ tpc = "loop"
    /\ tmpfiles = {}
    /\ result = [rc |-> 0, out |-> "none"]
    /\ deltaG_values = <<>>
    /\ windows = <<>>
    /\ stderr = <<>>
    /\ LoaderIdle
    /\ MinimaIdle
    /\ BlocksIdle
    /\ HillsIdle
    /\ MainIdle
    /\ OthersIdle

\* no record at or before t_block: continue
WindowEmpty ==
    /\ tpc = "loop"
    /\ k <= n_blocks
    /\ Mask(k) = {}
    /\ k' = k + 1
    /\ windows' = Append(windows, [num |-> BlockNum(k), status |-> "norecords", span |-> 0])
    /\ UNCHANGED <<total_time, n_blocks, hills, tpc, tmpfiles, result, deltaG_values, stderr>>
    /\ UNCHANGED notTracker

\* np.savetxt(temp_hills, hills_block)
WindowWrite ==
    /\ tpc = "loop"
    /\ k <= n_blocks
    /\ Mask(k) # {}
    /\ tmpfiles' = tmpfiles \cup {TempHills(k)}
    /\ tpc' = "run"
    /\ UNCHANGED <<total_time, n_blocks, hills, k, result, deltaG_values, windows, stderr>>
    /\ UNCHANGED notTracker

\* subprocess.run returns; then the guarded read of temp_fes
Reconstruct ==
    /\ tpc = "run"
    /\ \E rc \in {0, 1}, out \in OutKinds, prof \in Profiles :
        LET files == IF out = "none" THEN tmpfiles ELSE tmpfiles \cup {TempFes(k)}
            read == FesReadable(rc, files, k)
            good == rc = 0 /\ out = "table" IN
        /\ result' = [rc |-> rc, out |-> out]
        /\ tmpfiles' = files
        /\ IF read /\ out = "empty"
           THEN \* load_plumed_file: sys.exit(1), not an Exception
                /\ tpc' = "exit1"
                /\ stderr' = Append(stderr, [level |-> "ERROR", path |-> TempFes(k)])
                /\ UNCHANGED <<deltaG_values, windows>>
           ELSE /\ tpc' = "clean"
                /\ stderr' = stderr
                /\ deltaG_values' =
                      IF read /\ out = "table"
                      THEN Append(deltaG_values, <<BlockNum(k), DeltaG(Table(prof))>>)
                      ELSE deltaG_values
                /\ windows' = Append(windows,
                      [num |-> BlockNum(k),
                       status |-> IF good THEN "profile" ELSE "failed",
                       span |-> IF good THEN SpanOf(prof) ELSE 0])
    /\ UNCHANGED <<total_time, n_blocks, hills, k>>
    /\ UNCHANGED notTracker

\* subprocess.run raises (OSError): the exception leaves the function
InvokeRaises ==
    /\ tpc = "run"
    /\ tpc' = "raised"
    /\ UNCHANGED <<total_time, n_blocks, hills, k, tmpfiles, result, deltaG_values, windows, stderr>>
    /\ UNCHANGED notTracker

\* os.remove of the temporaries that exist; next window
Cleanup ==
    /\ tpc = "clean"
    /\ tmpfiles' = tmpfiles \ {TempHills(k), TempFes(k)}
    /\ k' = k + 1
    /\ tpc' = "loop"
    /\ UNCHANGED <<total_time, n_blocks, hills, result, deltaG_values, windows, stderr>>
    /\ UNCHANGED notTracker

\* the loop is over: the dict of times and deltaG is returned
Return ==
    /\ tpc = "loop"
    /\ k > n_blocks
    /\ tpc' = "return"
    /\ UNCHANGED <<total_time, n_blocks, hills, k, tmpfiles, result, deltaG_values, windows, stderr>>
    /\ UNCHANGED notTracker

Next == WindowEmpty \/ WindowWrite \/ Reconstruct \/ InvokeRaises \/ Cleanup \/ Return

Spec == TrackerInit /\ [][Next]_vars

\* -------------------------------------------------------- find_fes_minima
MinWindow == 3
WindowDivisor == 50

\* the FES profiles: energies on a grid fine enough that neighbouring
\* grid points differ by at most one energy unit
Smooth(n) ==
    {e \in [1..n -> 0..MaxE] :
        \A i \in 1..(n - 1) : e[i + 1] - e[i] \in {-1, 0, 1}}

FesProfiles == UNION {Smooth(n) : n \in 1..MaxLen}

Thresholds == {1, 2}

\* data[:, 1] - np.min(data[:, 1])
Normalize(e) == [i \in 1..Len(e) |-> e[i] - NpMin(e)]

\* window = max(3, len(fes_vals) // 50)
Window(n) == IF n \div WindowDivisor > MinWindow THEN n \div WindowDivisor ELSE MinWindow

\* np.take(..., mode='clip'): an index outside the array is the nearest end
Clip(i, n) == IF i < 1 THEN 1 ELSE IF i > n THEN n ELSE i

\* the ascending sequence of the elements of a set of indices
RECURSIVE Ascending(_)
Ascending(S) ==
    IF S = {} THEN <<>>
    ELSE LET m == CHOOSE x \in S : \A y \in S : x <= y IN <<m>> \o Ascending(S \ {m})

\* scipy.signal.argrelmin(v, order=w)[0]: strictly less than the 2w
\* neighbours at distance 1..w, indices clipped at the ends
ArgRelMin(v, w) ==
    Ascending({i \in 1..Len(v) :
        \A sh \in 1..w : /\ v[i] < v[Clip(i + sh, Len(v))]
                         /\ v[i] < v[Clip(i - sh, Len(v))]})

\* the scan of the ImportError branch: i in range(window, len - window)
\* (0-based) whose value equals the minimum of v[max(0, i-w) : i+w+1]
FallbackScan(v, w) ==
    Ascending({i \in (w + 1)..(Len(v) - w) :
        LET lo == IF i - w < 1 THEN 1 ELSE i - w
            hi == IF i + w > Len(v) THEN Len(v) ELSE i + w IN
        v[i] = NpMin(SubSeq(v, lo, hi))})

\* barrier = np.max(fes_vals[filtered[-1]:idx+1]) - fes_vals[idx]
BarrierMaxOnly(v, anchor, idx) == NpMax(SubSeq(v, anchor, idx))

BarrierWholeProfile(v, anchor, idx) == NpMax(v) - v[idx]

Barrier(v, anchor, idx) == NpMax(SubSeq(v, anchor, idx)) - v[idx]

\* if barrier >= energy_window_kj
RetainAnyBarrier(barrier, thr) == barrier >= 0

Retain(barrier, thr) == barrier >= thr

\* the list of (i, j, min_e[j] - min_e[i]) for i < j, i outermost (0-based)
RECURSIVE PairSeq(_, _, _)
PairSeq(e, i, j) ==
    IF i > Len(e) THEN <<>>
    ELSE IF j > Len(e) THEN PairSeq(e, i + 1, i + 2)
    ELSE <<(<<i - 1, j - 1, e[j] - e[i]>>)>> \o PairSeq(e, i, j + 1)

RECURSIVE PairSeqSwapped(_, _, _)
PairSeqSwapped(e, i, j) ==
    IF i > Len(e) THEN <<>>
    ELSE IF j > Len(e) THEN PairSeqSwapped(e, i + 1, i + 2)
    ELSE <<(<<i - 1, j - 1, e[i] - e[j]>>)>> \o PairSeqSwapped(e, i, j + 1)

PairsEarlierMinusLater(e) == PairSeqSwapped(e, 1, 2)

Pairs(e) == PairSeq(e, 1, 2)

MinimaInit ==
    /\ fes_data \in FesProfiles
    /\ energy_window_kj \in Thresholds
    /\ have_scipy \in BOOLEAN
    /\ mpc = "start"
    /\ fes_vals = <<>>
    /\ local_min_idx = <<>>
    /\ filtered = <<>>
    /\ pos = 0
    /\ minima = NoResult
    /\ report = "nothing"
    /\ stderr = <<>>
    /\ LoaderIdle
    /\ TrackerIdle
    /\ BlocksIdle
    /\ HillsIdle
    /\ MainIdle
    /\ OthersIdle

\* normalization and candidate detection; None when there is no candidate
Detect ==
    /\ mpc = "start"
    /\ LET v == Normalize(fes_data)
           w == Window(Len(v))
           cand == IF have_scipy THEN ArgRelMin(v, w) ELSE FallbackScan(v, w) IN
        /\ fes_vals' = v
        /\ local_min_idx' = cand
        /\ IF cand = <<>>
           THEN /\ mpc' = "returned"
                /\ UNCHANGED <<filtered, pos>>
           ELSE /\ mpc' = "filter"
                /\ filtered' = <<cand[1]>>
                /\ pos' = 2
    /\ UNCHANGED <<fes_data, energy_window_kj, have_scipy, minima, report>>
    /\ UNCHANGED notMinima

\* one iteration of the loop over local_min_idx[1:]
FilterStep ==
    /\ mpc = "filter"
    /\ pos <= Len(local_min_idx)
    /\ LET idx == local_min_idx[pos]
           barrier == Barrier(fes_vals, filtered[Len(filtered)], idx) IN
        filtered' = IF Retain(barrier, energy_window_kj)
                    THEN Append(filtered, idx) ELSE filtered
    /\ pos' = pos + 1
    /\ UNCHANGED <<fes_data, energy_window_kj, have_scipy, mpc, fes_vals,
                   local_min_idx, minima, report>>
    /\ UNCHANGED notMinima

\* the dict of the retained minima and their pairwise differences
BuildResult ==
    /\ mpc = "filter"
    /\ pos > Len(local_min_idx)
    /\ LET min_e == [i \in 1..Len(filtered) |-> fes_vals[filtered[i]]]
           min_cv == [i \in 1..Len(filtered) |-> Table(fes_data)[filtered[i]][1]] IN
        minima' = [none |-> FALSE, cv |-> min_cv, energies |-> min_e,
                   deltaG_pairs |-> Pairs(min_e), n_minima |-> Len(filtered)]
    /\ mpc' = "returned"
    /\ UNCHANGED <<fes_data, energy_window_kj, have_scipy, fes_vals,
                   local_min_idx, filtered, pos, report>>
    /\ UNCHANGED notMinima

\* main: `if minima:` lists the minima
ReportMinima ==
    /\ mpc = "returned"
    /\ ~minima.none
    /\ report' = "detected"
    /\ mpc' = "reported"
    /\ UNCHANGED <<fes_data, energy_window_kj, have_scipy, fes_vals,
                   local_min_idx, filtered, pos, minima>>
    /\ UNCHANGED notMinima

\* main: otherwise "FES unimodal"
ReportUnimodal ==
    /\ mpc = "returned"
    /\ minima.none
    /\ report' = "unimodal"
    /\ mpc' = "reported"
    /\ UNCHANGED <<fes_data, energy_window_kj, have_scipy, fes_vals,
                   local_min_idx, filtered, pos, minima>>
    /\ UNCHANGED notMinima

MinimaNext == Detect \/ FilterStep \/ BuildResult \/ ReportMinima \/ ReportUnimodal

SpecMinima == MinimaInit /\ [][MinimaNext]_vars

\* --------------------------------------------------------- block_averaging
SeriesValues == {0, 1, 2}

SeriesSet == UNION {[1..n -> SeriesValues] : n \in 1..MaxSeries}

RECURSIVE Sum(_)
Sum(x) == IF x = <<>> THEN 0 ELSE x[1] + Sum(Tail(x))

RECURSIVE SumSq(_)
SumSq(x) == IF x = <<>> THEN 0 ELSE x[1] * x[1] + SumSq(Tail(x))

\* np.mean of the numbers x
Mean(x) == Frac(Sum(x), Len(x))

\* the square of np.std (ddof = 0) of the fractions nums[i]/d
StdSq(nums, d) ==
    Frac(Len(nums) * SumSq(nums) - Sum(nums) * Sum(nums),
         Len(nums) * Len(nums) * d * d)

\* block_size = len(data) // n_blocks
BlockSize(x, B) == Len(x) \div B

NeverDegenerate(block_size) == FALSE

\* if block_size == 0
Degenerate(block_size) == block_size = 0

SliceOneMore(x, i, bs) ==
    LET lo == i * bs + 1
        hi == IF (i + 1) * bs + 1 > Len(x) THEN Len(x) ELSE (i + 1) * bs + 1 IN
    SubSeq(x, lo, hi)

\* data[i*block_size:(i+1)*block_size] for the 0-based i; a slice of numpy
\* stops at the end of the array
Slice(x, i, bs) ==
    LET lo == i * bs + 1
        hi == IF (i + 1) * bs > Len(x) THEN Len(x) ELSE (i + 1) * bs IN
    SubSeq(x, lo, hi)

BlockSumsButLast(x, B) == [i \in 1..(B - 1) |-> Sum(Slice(x, i - 1, BlockSize(x, B)))]

\* the sums of the blocks i in range(n_blocks); each block mean is its sum
\* over block_size
BlockSums(x, B) == [i \in 1..B |-> Sum(Slice(x, i - 1, BlockSize(x, B)))]

BlocksInit ==
    /\ ba_data \in SeriesSet
    /\ ba_n_blocks \in 1..MaxB
    /\ bpc = "start"
    /\ block_means = <<>>
    /\ mean = Frac(0, 1)
    /\ stderr2 = Frac(0, 1)
    /\ stderr = <<>>
    /\ LoaderIdle
    /\ TrackerIdle
    /\ MinimaIdle
    /\ HillsIdle
    /\ MainIdle
    /\ OthersIdle

\* lines 251-253: return np.mean(data), np.std(data), [np.mean(data)]
ReturnSeriesStatistics ==
    /\ bpc = "start"
    /\ Degenerate(BlockSize(ba_data, ba_n_blocks))
    /\ mean' = Mean(ba_data)
    /\ stderr2' = StdSq(ba_data, 1)
    /\ block_means' = <<Mean(ba_data)>>
    /\ bpc' = "returned"
    /\ UNCHANGED <<ba_data, ba_n_blocks>>
    /\ UNCHANGED notBlocks

\* lines 255-265: the block means, their mean, and np.std of them over
\* np.sqrt(n_blocks), whose square is the variance over n_blocks
ReturnBlockStatistics ==
    /\ bpc = "start"
    /\ ~Degenerate(BlockSize(ba_data, ba_n_blocks))
    /\ LET bs == BlockSize(ba_data, ba_n_blocks)
           sums == BlockSums(ba_data, ba_n_blocks)
           var == StdSq(sums, bs) IN
        /\ block_means' = [i \in 1..Len(sums) |-> Frac(sums[i], bs)]
        /\ mean' = Frac(Sum(sums), bs * Len(sums))
        /\ stderr2' = Frac(var.num, var.den * ba_n_blocks)
    /\ bpc' = "returned"
    /\ UNCHANGED <<ba_data, ba_n_blocks>>
    /\ UNCHANGED notBlocks

BlocksNext == ReturnSeriesStatistics \/ ReturnBlockStatistics

SpecBlocks == BlocksInit /\ [][BlocksNext]_vars

\* ---------------------------------------------- analyze_hills_convergence
HeightValues == {-1, 0, 2}

HillsTables ==
    UNION {[1..r -> [1..c -> HeightValues]] : r \in 1..MaxHillsRows, c \in 1..MaxCols}

\* a[i] of numpy for a 0-based i that may be negative, as a 1-based position
PyIndex(i, n) == IF i < 0 THEN i + n + 1 ELSE i + 1

\* np.std(heights) < 1e-6: of integer heights, all of them equal
Constant(h) == \A i \in 1..Len(h) : h[i] = h[1]

HeightColLast(n_cols) == PyIndex(n_cols - 1, n_cols)

\* height_col = n_cols - 2
HeightCol(n_cols) == PyIndex(n_cols - 2, n_cols)

RatioWheneverNonZero(h_initial, h_final) ==
    IF h_initial > 0 THEN Frac(h_final, h_initial)
    ELSE IF h_initial < 0 THEN Frac(0 - h_final, 0 - h_initial)
    ELSE Frac(0, 1)

\* h_ratio = h_final / h_initial if h_initial > 0 else 0
Ratio(h_initial, h_final) ==
    IF h_initial > 0 THEN Frac(h_final, h_initial) ELSE Frac(0, 1)

\* the dict returned for a table of at least one row
AnalyzeHillsConvergence(tbl) ==
    LET n_cols == Len(tbl[1])
        heights == [i \in 1..Len(tbl) |-> tbl[i][HeightCol(n_cols)]]
        n_gaussians == Len(heights) IN
    [n_gaussians |-> n_gaussians,
     h_initial |-> heights[1],
     h_final |-> heights[n_gaussians],
     h_ratio |-> Ratio(heights[1], heights[n_gaussians]),
     total_time_ps |-> tbl[n_gaussians][1]]

ConstantWarning == "WARNING: Alturas constantes"

\* the heights of a table, for the warning of line 139
Heights(tbl) == [i \in 1..Len(tbl) |-> tbl[i][HeightCol(Len(tbl[1]))]]

HillsInit ==
    /\ hills_table \in HillsTables
    /\ hills_conv = NoConv
    /\ hpc = "start"
    /\ stderr = <<>>
    /\ LoaderIdle
    /\ TrackerIdle
    /\ MinimaIdle
    /\ BlocksIdle
    /\ MainIdle
    /\ OthersIdle

Analyze ==
    /\ hpc = "start"
    /\ hills_conv' = AnalyzeHillsConvergence(hills_table)
    /\ stdout' = IF Constant(Heights(hills_table))
                 THEN Append(stdout, ConstantWarning) ELSE stdout
    /\ hpc' = "returned"
    /\ UNCHANGED <<hills_table, mainpc, no_fes, colvar, plumed, fes_file,
                   deltaG_data, written, convergence_report>>
    /\ UNCHANGED notHills

HillsNext == Analyze

SpecHills == HillsInit /\ [][HillsNext]_vars

\* -------------------------------------------------------------------- main
MainHeights == {0, 1, 10, 100, 1000}

\* a HILLS table of time, height and bias factor, one row per height;
\* the empty sequence is a file without a data row
HillsOf(h) == [i \in 1..Len(h) |-> <<i, h[i], 10>>]

MainHills == {HillsOf(h) : h \in UNION {[1..n -> MainHeights] : n \in 0..MaxHillsRows}}

DeltaGValues == {0, 5}

DeltaGSeries == UNION {[1..n -> DeltaGValues] : n \in 0..MaxSpans}

\* what can be at <output_dir>/metad_fes.dat: no file, a file without a
\* data row, rows of one number, rows of unequal length, rows of two or more
FesKinds == {"missing", "empty", "onecol", "ragged", "table"}

FesPath == "metad_fes.dat"

\* r < a/b for a fraction r
Less(r, a, b) == r.num * b < a * r.den

VerdictAlwaysConverged(h_ratio) == "CONVERGIDO"

\* lines 351-361
Verdict(h_ratio) ==
    IF Less(h_ratio, 1, 100) THEN "CONVERGIDO"
    ELSE IF Less(h_ratio, 1, 10) THEN "PARCIALMENTE CONVERGIDO"
    ELSE "NO CONVERGIDO"

\* np.std(last_3) < 2.0 for the three values x: the population variance
\* (3 * sum of squares - square of the sum) / 9 is less than 4
VariationBelowTwo(x) ==
    3 * (x[1] * x[1] + x[2] * x[2] + x[3] * x[3])
        - (x[1] + x[2] + x[3]) * (x[1] + x[2] + x[3]) < 36

StabilityFromThree(dG) ==
    IF Len(dG) >= 3
    THEN <<IF VariationBelowTwo(SubSeq(dG, Len(dG) - 2, Len(dG)))
           THEN "DeltaG estable" ELSE "DeltaG inestable">>
    ELSE <<>>

\* lines 365-372: the lines written when len(deltaG_data['deltaG']) > 3
Stability(dG) ==
    IF Len(dG) > 3
    THEN <<IF VariationBelowTwo(SubSeq(dG, Len(dG) - 2, Len(dG)))
           THEN "DeltaG estable" ELSE "DeltaG inestable">>
    ELSE <<>>

MinimaOutcomesExitNotCaught(kind) ==
    CASE kind = "missing" -> {[pc |-> "save", n |-> 0, err |-> <<>>]}
      [] kind = "empty" -> {[pc |-> "exit1", n |-> 0,
                             err |-> <<[level |-> "ERROR", path |-> FesPath]>>]}
      [] kind = "onecol" -> {[pc |-> "save", n |-> 0, err |-> <<>>]}
      [] kind = "ragged" -> {[pc |-> "save", n |-> 0, err |-> <<>>],
                             [pc |-> "raised", n |-> 0, err |-> <<>>]}
      [] kind = "table" -> {[pc |-> "save", n |-> m, err |-> <<>>] : m \in 0..MaxMinima}

\* find_fes_minima(fes_main) as main sees it: where main goes next, the
\* number of minima in the dict returned (0 for None), and what the loader
\* wrote to stderr.  Lines 278-285 return None; np.array of rows of unequal
\* length raises ValueError or gives a 1-d array, by the numpy installed.
MinimaOutcomes(kind) ==
    CASE kind = "missing" -> {[pc |-> "save", n |-> 0, err |-> <<>>]}
      [] kind = "empty" -> {[pc |-> "save", n |-> 0,
                             err |-> <<[level |-> "ERROR", path |-> FesPath]>>]}
      [] kind = "onecol" -> {[pc |-> "save", n |-> 0, err |-> <<>>]}
      [] kind = "ragged" -> {[pc |-> "save", n |-> 0, err |-> <<>>],
                             [pc |-> "raised", n |-> 0, err |-> <<>>]}
      [] kind = "table" -> {[pc |-> "save", n |-> m, err |-> <<>>] : m \in 0..MaxMinima}

MainInit ==
    /\ mainpc = "hills"
    /\ no_fes \in BOOLEAN
    /\ colvar \in BOOLEAN
    /\ plumed \in {"absent", "failing", "ok"}
    /\ fes_file \in FesKinds
    /\ hills_table \in MainHills
    /\ hills_conv = NoConv
    /\ hpc = "idle"
    /\ deltaG_data = NoDeltaG
    /\ written = {}
    /\ convergence_report = <<>>
    /\ stdout = <<>>
    /\ stderr = <<>>
    /\ LoaderIdle
    /\ TrackerIdle
    /\ MinimaIdle
    /\ BlocksIdle
    /\ OthersIdle

AnalyzeHillsEmptyTolerated ==
    /\ mainpc = "hills"
    /\ hills_conv' = IF hills_table = <<>> THEN NoConv
                     ELSE AnalyzeHillsConvergence(hills_table)
    /\ mainpc' = IF no_fes THEN "save" ELSE "probe"
    /\ UNCHANGED <<hills_table, no_fes, colvar, plumed, fes_file, deltaG_data,
                   written, convergence_report, stdout, stderr>>
    /\ UNCHANGED notMain

\* step 1: analyze_hills_convergence(args.hills); a HILLS file without a
\* data row ends the run in load_plumed_file
AnalyzeHills ==
    /\ mainpc = "hills"
    /\ IF hills_table = <<>>
       THEN /\ stderr' = Append(stderr, [level |-> "ERROR", path |-> "HILLS"])
            /\ mainpc' = "exit1"
            /\ UNCHANGED <<hills_conv, stdout>>
       ELSE /\ hills_conv' = AnalyzeHillsConvergence(hills_table)
            /\ stdout' = IF Constant(Heights(hills_table))
                         THEN Append(stdout, ConstantWarning) ELSE stdout
            /\ mainpc' = IF no_fes THEN "save" ELSE "probe"
            /\ UNCHANGED stderr
    /\ UNCHANGED <<hills_table, no_fes, colvar, plumed, fes_file, deltaG_data,
                   written, convergence_report>>
    /\ UNCHANGED notMain

PlumedWarning == "WARNING: 'plumed' no encontrado en PATH"

\* subprocess.run(["plumed", "--help"], capture_output=True): with no such
\* executable on PATH the call raises FileNotFoundError; the else branch of
\* line 511 is taken when the executable runs and returns non-zero
ProbePlumed ==
    /\ mainpc = "probe"
    /\ CASE plumed = "absent" -> mainpc' = "raised" /\ UNCHANGED stdout
         [] plumed = "failing" -> /\ mainpc' = "save"
                                  /\ stdout' = Append(stdout, PlumedWarning)
         [] plumed = "ok" -> mainpc' = "sum_hills" /\ UNCHANGED stdout
    /\ UNCHANGED <<hills_table, hills_conv, no_fes, colvar, plumed, fes_file,
                   deltaG_data, written, convergence_report, stderr>>
    /\ UNCHANGED notMain

\* run_sum_hills(..., time_blocks=None): a non-zero return code is warned
\* of on stderr; on return code 0 plumed has left its output at FesPath
FullReconstruction ==
    /\ mainpc = "sum_hills"
    /\ \E rc \in {0, 1}, out \in FesKinds :
        IF rc # 0
        THEN /\ stderr' = Append(stderr, [level |-> "WARNING", path |-> "sum_hills"])
             /\ UNCHANGED fes_file
        ELSE /\ fes_file' = out
             /\ UNCHANGED stderr
    /\ mainpc' = IF colvar THEN "deltaG" ELSE "minima"
    /\ UNCHANGED <<hills_table, hills_conv, no_fes, colvar, plumed,
                   deltaG_data, written, convergence_report, stdout>>
    /\ UNCHANGED notMain

\* compute_deltaG_vs_time(args.colvar, ...): it returns the spans of the
\* windows that gave a profile, ends the run on a file without a data row
\* (COLVAR, or a window's output), or raises on rows of unequal length
TrackDeltaG ==
    /\ mainpc = "deltaG"
    /\ \/ \E dG \in DeltaGSeries :
            /\ deltaG_data' = [deltaG |-> dG, minima |-> 0]
            /\ mainpc' = "minima"
            /\ UNCHANGED stderr
       \/ \E path \in {"COLVAR", "/tmp/fes_block"} :
            /\ stderr' = Append(stderr, [level |-> "ERROR", path |-> path])
            /\ mainpc' = "exit1"
            /\ UNCHANGED deltaG_data
       \/ /\ mainpc' = "raised"
          /\ UNCHANGED <<deltaG_data, stderr>>
    /\ UNCHANGED <<hills_table, hills_conv, no_fes, colvar, plumed, fes_file,
                   written, convergence_report, stdout>>
    /\ UNCHANGED notMain

\* step 4: minima = find_fes_minima(fes_main); `if minima:` stores it
FindMinima ==
    /\ mainpc = "minima"
    /\ \E o \in MinimaOutcomes(fes_file) :
        /\ mainpc' = o.pc
        /\ deltaG_data' = [deltaG_data EXCEPT !.minima = o.n]
        /\ stderr' = stderr \o o.err
    /\ UNCHANGED <<hills_table, hills_conv, no_fes, colvar, plumed, fes_file,
                   written, convergence_report, stdout>>
    /\ UNCHANGED notMain

\* save_data_files: the heights always, the spans when there is one
SaveDataFiles ==
    /\ mainpc = "save"
    /\ written' = written \cup {"gaussian_heights.dat"}
                    \cup (IF deltaG_data.deltaG # <<>>
                          THEN {"deltaG_vs_time.dat"} ELSE {})
    /\ mainpc' = "report"
    /\ UNCHANGED <<hills_table, hills_conv, no_fes, colvar, plumed, fes_file,
                   deltaG_data, convergence_report, stdout, stderr>>
    /\ UNCHANGED notMain

\* save_convergence_report, and the rest of main (the block averaging of
\* more than 10 heights only prints)
SaveConvergenceReport ==
    /\ mainpc = "report"
    /\ convergence_report' = <<Verdict(hills_conv.h_ratio)>>
                                \o Stability(deltaG_data.deltaG)
    /\ written' = written \cup {"convergence_report.txt"}
    /\ mainpc' = "done"
    /\ UNCHANGED <<hills_table, hills_conv, no_fes, colvar, plumed, fes_file,
                   deltaG_data, stdout, stderr>>
    /\ UNCHANGED notMain

MainNext ==
    \/ AnalyzeHills
    \/ ProbePlumed
    \/ FullReconstruction
    \/ TrackDeltaG
    \/ FindMinima
    \/ SaveDataFiles
    \/ SaveConvergenceReport

SpecMain == MainInit /\ [][MainNext]_vars

\* ------------------------------------------------------------ run_sum_hills
\* time_blocks: None, or a list of bounds h/2 ps
TimeBlocks ==
    {[none |-> TRUE, bounds |-> <<>>]}
      \cup {[none |-> FALSE, bounds |-> b] :
               b \in UNION {[1..n -> 0..MaxHalf] : n \in 0..MaxBounds}}

\* f"{output_prefix}_fes.dat"
FullOutfile == [kind |-> "fes", tag |-> -1]

\* f"{output_prefix}_fes_t{t_max:.0f}.dat" for t_max = h/2
BlockOutfile(h) == [kind |-> "fes_t", tag |-> RoundHalfEven(h, 2)]

\* the command of lines 68-73: the whole hills_file, no --stride
FullCommand(rc) ==
    [hills |-> hills_file, outfile |-> FullOutfile, stride |-> -1, rc |-> rc]

\* the command of lines 90-96 for t_max = h/2: the whole hills_file, and
\* --stride str(int(t_max))
BlockCommand(h, rc) ==
    [hills |-> hills_file, outfile |-> BlockOutfile(h), stride |-> h \div 2, rc |-> rc]

SumHillsInit ==
    /\ time_blocks \in TimeBlocks
    /\ hills_file \in UNION {SortedSeqs(n, MaxT) : n \in 1..MaxHills}
    /\ requests = <<>>
    /\ fes_files = <<>>
    /\ spc = "start"
    /\ tb_i = 1
    /\ stderr = <<>>
    /\ LoaderIdle
    /\ TrackerIdle
    /\ MinimaIdle
    /\ BlocksIdle
    /\ HillsIdle
    /\ MainIdle
    /\ PlotIdle
    /\ ValidateIdle
    /\ RunsIdle

\* time_blocks is None: one command; a non-zero return code is warned of
\* and the empty list returned
RequestFull ==
    /\ spc = "start"
    /\ time_blocks.none
    /\ \E rc \in {0, 1} :
        /\ requests' = Append(requests, FullCommand(rc))
        /\ fes_files' = IF rc = 0 THEN Append(fes_files, FullOutfile) ELSE fes_files
        /\ stderr' = IF rc = 0 THEN stderr
                     ELSE Append(stderr, [level |-> "WARNING", path |-> "sum_hills"])
    /\ spc' = "returned"
    /\ UNCHANGED <<time_blocks, hills_file, tb_i>>
    /\ UNCHANGED notSumHills

\* one iteration of `for t_max in time_blocks`
RequestBlock ==
    /\ spc = "start"
    /\ ~time_blocks.none
    /\ tb_i <= Len(time_blocks.bounds)
    /\ \E rc \in {0, 1} :
        LET h == time_blocks.bounds[tb_i] IN
        /\ requests' = Append(requests, BlockCommand(h, rc))
        /\ fes_files' = IF rc = 0 THEN Append(fes_files, BlockOutfile(h)) ELSE fes_files
    /\ tb_i' = tb_i + 1
    /\ UNCHANGED <<time_blocks, hills_file, spc, stderr>>
    /\ UNCHANGED notSumHills

\* the loop is over: return fes_files
ReturnBlocks ==
    /\ spc = "start"
    /\ ~time_blocks.none
    /\ tb_i > Len(time_blocks.bounds)
    /\ spc' = "returned"
    /\ UNCHANGED <<time_blocks, hills_file, requests, fes_files, tb_i, stderr>>
    /\ UNCHANGED notSumHills

SumHillsNext == RequestFull \/ RequestBlock \/ ReturnBlocks

SpecSumHills == SumHillsInit /\ [][SumHillsNext]_vars

\* ------------------------------------------- plot_deltaG_convergence
\* deltaG_vs_time.dat as save_data_files writes it: a header line and one
\* row `time deltaG` per span; no file when there is no span
RowsOf(dG) == [i \in 1..Len(dG) |-> <<i, dG[i]>>]

DgFiles ==
    {[exists |-> FALSE, rows |-> <<>>]}
      \cup {[exists |-> TRUE, rows |-> RowsOf(dG)] : dG \in DeltaGSeries}

\* np.loadtxt(dg_file, comments='#'): no data row gives an empty 1-d
\* array, one row gives the 1-d array of its numbers, more rows a 2-d array
Loadtxt(rows) ==
    IF Len(rows) = 0 THEN [ndim |-> 1, shape |-> <<0>>]
    ELSE IF Len(rows) = 1 THEN [ndim |-> 1, shape |-> <<Len(rows[1])>>]
    ELSE [ndim |-> 2, shape |-> <<Len(rows), Len(rows[1])>>]

\* data.size
Size(a) == IF a.ndim = 1 THEN a.shape[1] ELSE a.shape[1] * a.shape[2]

PlotInit ==
    /\ dg_file \in DgFiles
    /\ ppc = "start"
    /\ plot_data = [ndim |-> 0, shape |-> <<>>]
    /\ plotted = [band |-> FALSE, saved |-> FALSE]
    /\ stderr = <<>>
    /\ LoaderIdle
    /\ TrackerIdle
    /\ MinimaIdle
    /\ BlocksIdle
    /\ HillsIdle
    /\ MainIdle
    /\ SumHillsIdle
    /\ ValidateIdle
    /\ RunsIdle

\* if not os.path.exists(dg_file): return
PlotNoFile ==
    /\ ppc = "start"
    /\ ~dg_file.exists
    /\ ppc' = "returned"
    /\ UNCHANGED <<dg_file, plot_data, plotted>>
    /\ UNCHANGED notPlot

\* data = np.loadtxt(dg_file, comments='#')
PlotLoad ==
    /\ ppc = "start"
    /\ dg_file.exists
    /\ plot_data' = Loadtxt(dg_file.rows)
    /\ ppc' = "loaded"
    /\ UNCHANGED <<dg_file, plotted>>
    /\ UNCHANGED notPlot

\* if data.size == 0: return
PlotNoData ==
    /\ ppc = "loaded"
    /\ Size(plot_data) = 0
    /\ ppc' = "returned"
    /\ UNCHANGED <<dg_file, plot_data, plotted>>
    /\ UNCHANGED notPlot

\* time = data[:, 0]: two indices into a 1-d array raise IndexError
PlotIndexError ==
    /\ ppc = "loaded"
    /\ Size(plot_data) # 0
    /\ plot_data.ndim < 2
    /\ ppc' = "raised"
    /\ UNCHANGED <<dg_file, plot_data, plotted>>
    /\ UNCHANGED notPlot

\* time = data[:, 0]; deltaG = data[:, 1]
PlotColumns ==
    /\ ppc = "loaded"
    /\ Size(plot_data) # 0
    /\ plot_data.ndim = 2
    /\ ppc' = "columns"
    /\ UNCHANGED <<dg_file, plot_data, plotted>>
    /\ UNCHANGED notPlot

\* the curve, the band of the last 3 points when len(deltaG) > 3, savefig
PlotSave ==
    /\ ppc = "columns"
    /\ plotted' = [band |-> plot_data.shape[1] > 3, saved |-> TRUE]
    /\ ppc' = "returned"
    /\ UNCHANGED <<dg_file, plot_data>>
    /\ UNCHANGED notPlot

PlotNext ==
    PlotNoFile \/ PlotLoad \/ PlotNoData \/ PlotIndexError \/ PlotColumns \/ PlotSave

SpecPlot == PlotInit /\ [][PlotNext]_vars

\* ------------------------------------------------ validate_atom_selection
AtomAlphabet == {"1", "-", ",", " ", "a"}

Selections == UNION {[1..n -> AtomAlphabet] : n \in 0..MaxSel}

\* c in s
Contains(s, c) == \E i \in 1..Len(s) : s[i] = c

\* the position of the first c in s, which holds one
FirstAt(s, c) == CHOOSE i \in 1..Len(s) : s[i] = c /\ \A j \in 1..(i - 1) : s[j] # c

RECURSIVE SplitOnDropEmpty(_, _)
SplitOnDropEmpty(s, c) ==
    IF ~Contains(s, c) THEN IF s = <<>> THEN <<>> ELSE <<s>>
    ELSE LET i == FirstAt(s, c)
             rest == SplitOnDropEmpty(SubSeq(s, i + 1, Len(s)), c) IN
         IF i = 1 THEN rest ELSE <<SubSeq(s, 1, i - 1)>> \o rest

\* s.split(c): the pieces between the separators, empty ones included
RECURSIVE SplitOn(_, _)
SplitOn(s, c) ==
    IF ~Contains(s, c) THEN <<s>>
    ELSE LET i == FirstAt(s, c) IN
         <<SubSeq(s, 1, i - 1)>> \o SplitOn(SubSeq(s, i + 1, Len(s)), c)

\* str.isdigit(): at least one character, all of them digits
IsDigit(s) == s # <<>> /\ \A i \in 1..Len(s) : s[i] = "1"

\* lines 31-41
ValidateAtomSelection(arg) ==
    LET str == Strip(arg)
        parts == SplitOn(str, "-")
        list == SplitOn(str, ",") IN
    IF /\ Contains(str, "-")
       /\ ~Contains(str, ",")
       /\ Len(parts) = 2
       /\ IsDigit(parts[1])
       /\ IsDigit(parts[2])
    THEN TRUE
    ELSE \A i \in 1..Len(list) : IsDigit(Strip(list[i]))

ValidateInit ==
    /\ atoms_str \in Selections
    /\ valid = FALSE
    /\ vpc = "start"
    /\ stderr = <<>>
    /\ LoaderIdle
    /\ TrackerIdle
    /\ MinimaIdle
    /\ BlocksIdle
    /\ HillsIdle
    /\ MainIdle
    /\ SumHillsIdle
    /\ PlotIdle
    /\ RunsIdle

Validate ==
    /\ vpc = "start"
    /\ valid' = ValidateAtomSelection(atoms_str)
    /\ vpc' = "returned"
    /\ UNCHANGED atoms_str
    /\ UNCHANGED notValidate

ValidateNext == Validate

SpecValidate == ValidateInit /\ [][ValidateNext]_vars

\* ------------------------- compute_deltaG_vs_time, two runs on one machine
\* Each run has a HILLS record at time 0, so every window has records.
RunIds == {1, 2}

\* f"{t_block:.0f}" for the window kk of a run
RunTag(r, kk) == RoundHalfEven(kk * run_conf[r].total_time, run_conf[r].n_blocks)

\* temp_hills = f"/tmp/hills_block_{t_block:.0f}.dat": the name holds the
\* rounded bound and nothing of the process
RunHills(r, kk) == [kind |-> "hills_block", tag |-> RunTag(r, kk)]

\* temp_fes = f"/tmp/fes_block_{t_block:.0f}.dat"
RunFes(r, kk) == [kind |-> "fes_block", tag |-> RunTag(r, kk)]

TmpNames == [kind : {"hills_block", "fes_block"}, tag : 0..MaxRunT]

\* the accesses by run r to the files in names that the other run wrote
Foreign(r, names, op) ==
    {[by |-> r, op |-> op] : n \in {x \in names : tmp[x] \notin {0, r}}}

RunsInit ==
    /\ run_conf \in [RunIds -> [total_time : 1..MaxRunT, n_blocks : 1..MaxRunBlocks]]
    /\ run_k = [r \in RunIds |-> 1]
    /\ run_pc = [r \in RunIds |-> "loop"]
    /\ tmp = [n \in TmpNames |-> 0]
    /\ foreign = {}
    /\ stderr = <<>>
    /\ LoaderIdle
    /\ TrackerIdle
    /\ MinimaIdle
    /\ BlocksIdle
    /\ HillsIdle
    /\ MainIdle
    /\ SumHillsIdle
    /\ PlotIdle
    /\ ValidateIdle

\* np.savetxt(temp_hills, hills_block): creates or overwrites the file
RunWrite(r) ==
    /\ run_pc[r] = "loop"
    /\ run_k[r] <= run_conf[r].n_blocks
    /\ foreign' = foreign \cup Foreign(r, {RunHills(r, run_k[r])}, "overwrite")
    /\ tmp' = [tmp EXCEPT ![RunHills(r, run_k[r])] = r]
    /\ run_pc' = [run_pc EXCEPT ![r] = "run"]
    /\ UNCHANGED <<run_conf, run_k>>
    /\ UNCHANGED notRuns

\* subprocess.run(cmd): plumed reads temp_hills, fails when it is gone, and
\* on success writes temp_fes; the read of line 219 follows return code 0
RunReconstruct(r) ==
    /\ run_pc[r] = "run"
    /\ \E rc \in {0, 1} :
        /\ tmp[RunHills(r, run_k[r])] = 0 => rc = 1
        /\ foreign' = foreign
              \cup Foreign(r, {RunHills(r, run_k[r])}, "read")
              \cup (IF rc = 0 THEN Foreign(r, {RunFes(r, run_k[r])}, "overwrite") ELSE {})
        /\ tmp' = IF rc = 0 THEN [tmp EXCEPT ![RunFes(r, run_k[r])] = r] ELSE tmp
        /\ run_pc' = [run_pc EXCEPT ![r] = IF rc = 0 THEN "read" ELSE "clean"]
    /\ UNCHANGED <<run_conf, run_k>>
    /\ UNCHANGED notRuns

\* if ... os.path.exists(temp_fes): fes = load_plumed_file(temp_fes)
RunRead(r) ==
    /\ run_pc[r] = "read"
    /\ foreign' = foreign \cup Foreign(r, {RunFes(r, run_k[r])}, "read")
    /\ run_pc' = [run_pc EXCEPT ![r] = "clean"]
    /\ UNCHANGED <<run_conf, run_k, tmp>>
    /\ UNCHANGED notRuns

\* for f in [temp_hills, temp_fes]: if os.path.exists(f): os.remove(f)
RunClean(r) ==
    /\ run_pc[r] = "clean"
    /\ LET names == {RunHills(r, run_k[r]), RunFes(r, run_k[r])} IN
        /\ foreign' = foreign \cup Foreign(r, names, "delete")
        /\ tmp' = [n \in TmpNames |-> IF n \in names THEN 0 ELSE tmp[n]]
    /\ run_k' = [run_k EXCEPT ![r] = run_k[r] + 1]
    /\ run_pc' = [run_pc EXCEPT ![r] = "loop"]
    /\ UNCHANGED run_conf
    /\ UNCHANGED notRuns

RunReturn(r) ==
    /\ run_pc[r] = "loop"
    /\ run_k[r] > run_conf[r].n_blocks
    /\ run_pc' = [run_pc EXCEPT ![r] = "return"]
    /\ UNCHANGED <<run_conf, run_k, tmp, foreign>>
    /\ UNCHANGED notRuns

RunsNext ==
    \E r \in RunIds :
        RunWrite(r) \/ RunReconstruct(r) \/ RunRead(r) \/ RunClean(r) \/ RunReturn(r)

SpecRuns == RunsInit /\ [][RunsNext]_vars

\* --------------------------------------------------- claims: the detector
\* the normalized energy of grid point i, as the specification states it:
\* the energy less the lowest energy of the profile
Energy(i) ==
    LET lo == CHOOSE j \in 1..Len(fes_data) :
                  \A m \in 1..Len(fes_data) : fes_data[j] <= fes_data[m] IN
    fes_data[i] - fes_data[lo]

\* the maximum normalized energy over the grid points a..b, ends included
MaxBetween(a, b) ==
    CHOOSE x \in {Energy(i) : i \in a..b} : \A i \in a..b : Energy(i) <= x

MinimaReturned == mpc \in {"returned", "reported"}

\* a profile that falls strictly to one interior grid point and rises
\* strictly from it, as a parabola does
SingleWell ==
    \E v \in 2..(Len(fes_data) - 1) :
        /\ \A i \in 1..(v - 1) : fes_data[i] > fes_data[i + 1]
        /\ \A i \in v..(Len(fes_data) - 1) : fes_data[i] < fes_data[i + 1]

\* C6 as stated: for a profile with one minimum and no other local minimum
\* find_fes_minima returns no result and main reports the FES as unimodal.
C6_SingleWellUnimodal ==
    SingleWell =>
        /\ MinimaReturned => minima.none
        /\ mpc = "reported" => report = "unimodal"

\* the greedy left-to-right filter over the candidates cands, kept being
\* the minima retained so far; the barrier is measured from the candidate's
\* own energy when rel, and is the plain maximum otherwise
RECURSIVE GreedyKeep(_, _, _)
GreedyKeep(cands, kept, rel) ==
    IF cands = <<>> THEN kept
    ELSE LET c == Head(cands)
             anchor == kept[Len(kept)]
             b == IF rel THEN MaxBetween(anchor, c) - Energy(c)
                  ELSE MaxBetween(anchor, c) IN
         GreedyKeep(Tail(cands),
                    IF b >= energy_window_kj THEN Append(kept, c) ELSE kept,
                    rel)

\* the candidates after the first that the loop has decided on
Decided == SubSeq(local_min_idx, 2, pos - 1)

Wells ==
    {i \in 2..(Len(fes_data) - 1) :
        \A j \in 1..Len(fes_data) :
            (j # i /\ j - i <= Window(Len(fes_data)) /\ i - j <= Window(Len(fes_data)))
                => Energy(i) < Energy(j)}

\* C8 as stated: with exactly two wells and a maximum energy between them
\* >= the threshold, exactly 2 minima are retained and the one pairwise
\* entry is the later well's energy less the earlier well's; wells of
\* unequal depth and wells near the ends included.
C8_TwoWellsTwoMinima ==
    (MinimaReturned /\ Cardinality(Wells) = 2) =>
        LET w1 == CHOOSE i \in Wells : \A j \in Wells : i <= j
            w2 == CHOOSE i \in Wells : \A j \in Wells : j <= i IN
        MaxBetween(w1, w2) >= energy_window_kj =>
            /\ ~minima.none
            /\ minima.n_minima = 2
            /\ minima.deltaG_pairs = <<(<<0, 1, Energy(w2) - Energy(w1)>>)>>

\* two candidates with a barrier strictly below the threshold
ShallowPair ==
    /\ Len(local_min_idx) = 2
    /\ MaxBetween(local_min_idx[1], local_min_idx[2]) < energy_window_kj

\* C9: with two candidate wells and a separating barrier strictly below the
\* threshold, exactly 1 minimum is retained, the first candidate, and the
\* list of pairwise differences is empty.
C9_ShallowBarrierKeepsFirst ==
    (MinimaReturned /\ ShallowPair) =>
        /\ ~minima.none
        /\ minima.n_minima = 1
        /\ minima.cv = <<local_min_idx[1] - 1>>
        /\ minima.energies = <<Energy(local_min_idx[1])>>
        /\ minima.deltaG_pairs = <<>>

\* two wells found by argrelmin behind a barrier that is there but lower
\* than the threshold
C9_Witness ==
    /\ MinimaReturned
    /\ have_scipy
    /\ ShallowPair
    /\ MaxBetween(local_min_idx[1], local_min_idx[2]) > 0
    /\ minima.n_minima = 1

\* C10: in a non-empty result the first candidate is the first retained
\* minimum, and between any two adjacent retained minima the maximum
\* normalized energy, ends included, is at least the threshold.
C10_AdjacentMinimaSeparated ==
    (MinimaReturned /\ ~minima.none) =>
        /\ filtered[1] = local_min_idx[1]
        /\ minima.cv[1] = local_min_idx[1] - 1
        /\ minima.n_minima = Len(filtered)
        /\ \A i \in 1..(Len(filtered) - 1) :
              MaxBetween(filtered[i], filtered[i + 1]) >= energy_window_kj

\* a result of two minima out of more candidates
C10_Witness ==
    /\ MinimaReturned
    /\ minima.n_minima = 2
    /\ Len(local_min_idx) > 2

C29_DetectionPathsAgree ==
    mpc \in {"filter", "returned", "reported"} =>
        /\ local_min_idx = ArgRelMin(fes_vals, Window(Len(fes_vals)))
        /\ local_min_idx = FallbackScan(fes_vals, Window(Len(fes_vals)))

\* ---------------------------------------------------- claims: the tracker
\* the current window's reconstruction failed as the adapter signals it
WindowFailed == result.rc # 0 \/ result.out = "empty"

\* C1 as stated: a window whose reconstruction fails, by a non-zero exit or
\* by an output file with no data row, is skipped; the run is never ended
\* by it and every window bound is processed before the function returns.
C1_FailedWindowSkipped ==
    /\ WindowFailed => tpc # "exit1"
    /\ tpc = "return" => Len(windows) = n_blocks

\* C2 as stated: whenever a window's processing has ended, on any path (the
\* loop goes on, the function returns, the run exits, an error leaves the
\* function), no temporary file of the run exists.
C2_TempFilesRemoved ==
    tpc \in {"loop", "return", "exit1", "raised"} => tmpfiles = {}

\* the (bound, span) pairs of the windows that had records and a profile
RECURSIVE PairsOf(_)
PairsOf(ws) ==
    IF ws = <<>> THEN <<>>
    ELSE LET rest == PairsOf(Tail(ws)) IN
         IF Head(ws).status = "profile"
         THEN <<(<<Head(ws).num, Head(ws).span>>)>> \o rest
         ELSE rest

\* C3 as stated: the returned pairs are, by strictly increasing bound, one
\* per window with records and a successful reconstruction, each with the
\* span max - min of that window's profile; no other window has an entry.
C3_Original ==
    tpc = "return" =>
        /\ Len(windows) = n_blocks
        /\ deltaG_values = PairsOf(windows)
        /\ \A i, j \in 1..Len(deltaG_values) :
              i < j => deltaG_values[i][1] < deltaG_values[j][1]

\* C3 amended: the same, the bounds non-decreasing, and strictly increasing
\* when the total duration is > 0.
C3_PairsOfSucceededWindows ==
    tpc = "return" =>
        /\ Len(windows) = n_blocks
        /\ deltaG_values = PairsOf(windows)
        /\ \A i, j \in 1..Len(deltaG_values) :
              i < j => /\ deltaG_values[i][1] <= deltaG_values[j][1]
                       /\ total_time > 0 => deltaG_values[i][1] < deltaG_values[j][1]

\* a run of three windows: one without records, one failed, one with a
\* profile of non-zero span
C3_Witness ==
    /\ tpc = "return"
    /\ Len(windows) = 3
    /\ {windows[i].status : i \in 1..3} = {"norecords", "failed", "profile"}
    /\ Len(deltaG_values) = 1
    /\ deltaG_values[1][2] > 0

\* C21: for T > 0 and N >= 1 the loop runs over exactly N bounds, the k-th
\* being k*T/N for k = 1..N: the step is T/N, the last bound is T and the
\* bounds increase strictly.
C21_EquallySpacedBounds ==
    total_time > 0 =>
        /\ \A kk \in 1..n_blocks :
              LET b == Linspace(total_time, n_blocks, kk) IN
              /\ b.den > 0
              /\ b.num * n_blocks = kk * total_time * b.den
              /\ b.num * n_blocks = BlockNum(kk) * b.den
        /\ \A kk \in 1..(n_blocks - 1) :
              LET a == Linspace(total_time, n_blocks, kk)
                  b == Linspace(total_time, n_blocks, kk + 1) IN
              a.num * b.den < b.num * a.den
        /\ LET z == Linspace(total_time, n_blocks, n_blocks) IN
              z.num = total_time * z.den
        /\ tpc = "return" =>
              /\ Len(windows) = n_blocks
              /\ \A i \in 1..n_blocks : windows[i].num = i * total_time

\* three windows over a duration of 2 (bounds 2/3, 4/3, 2), all processed
C21_Witness ==
    /\ tpc = "return"
    /\ total_time = 2
    /\ n_blocks = 3
    /\ Len(windows) = 3
    /\ windows[2].num = 4

\* C26 as stated: for T > 0 the windows of one run, whose bounds all
\* differ, have temporary files of different names, also when T/N < 1.
C26_DistinctBoundsDistinctNames ==
    total_time > 0 =>
        \A i, j \in 1..n_blocks :
            BlockNum(i) # BlockNum(j) =>
                (TempHills(i) # TempHills(j) /\ TempFes(i) # TempFes(j))

\* ---------------------------------------------------- claims: the loader
LoaderDone == lpc # "reading"

PathMessage == [level |-> "ERROR", path |-> filepath]

C5_RowsAreDataLines ==
    /\ Len(data) = Len(wanted)
    /\ \A i \in 1..Len(data) : data[i] = wanted[i]
    /\ lpc = "raised" => ~Rectangular(data)

\* a line holding a float and a bad token was discarded whole, another kept
C5_Witness ==
    /\ lpc = "returned"
    /\ nread = 2
    /\ Len(data) = 1
    /\ \E i \in 1..Len(Split(line)) : IsFloat(Split(line)[i])
    /\ \E i \in 1..Len(Split(line)) : ~IsFloat(Split(line)[i])

\* ------------------------------------------------------- claims: the run
\* the profile files for which find_fes_minima has nothing to analyse
NoProfile == {"missing", "empty", "onecol"}

\* C12: when the profile file does not exist, has no data row or has fewer
\* than 2 columns, find_fes_minima returns None without raising and without
\* ending the run, and main goes on to write the heights file and the report.
C12_NoProfileNoResult ==
    [][/\ (mainpc = "minima" /\ fes_file \in NoProfile) =>
            (mainpc' = "save" /\ deltaG_data'.minima = 0)
       /\ mainpc = "save" =>
            (mainpc' = "report" /\ "gaussian_heights.dat" \in written')
       /\ mainpc = "report" =>
            (mainpc' = "done" /\ "convergence_report.txt" \in written')]_vars

\* a run that found a profile file without a data row and finished
C12_Witness ==
    /\ mainpc = "done"
    /\ ~no_fes
    /\ plumed = "ok"
    /\ fes_file = "empty"
    /\ deltaG_data.minima = 0
    /\ \E i \in 1..Len(stderr) : stderr[i] = [level |-> "ERROR", path |-> FesPath]
    /\ {"gaussian_heights.dat", "convergence_report.txt"} \subseteq written

\* -------------------------------------------------- claims: the averager
\* equality of two fractions of positive denominator
EqFrac(a, b) == a.den > 0 /\ b.den > 0 /\ a.num * b.den = b.num * a.den

\* x[1] + ... + x[n]
RECURSIVE Total(_, _)
Total(x, n) == IF n = 0 THEN 0 ELSE Total(x, n - 1) + x[n]

\* the product of the denominators of the fractions f[1..n]
RECURSIVE DenProduct(_, _)
DenProduct(f, n) == IF n = 0 THEN 1 ELSE DenProduct(f, n - 1) * f[n].den

\* the arithmetic mean of a non-empty list of fractions of positive
\* denominator
MeanOfFractions(f) ==
    LET D == DenProduct(f, Len(f))
        scaled == [i \in 1..Len(f) |-> f[i].num * (D \div f[i].den)] IN
    Frac(Total(scaled, Len(f)), D * Len(f))

\* the sum of the squared deviations of the numbers x from their mean,
\* times the square of their count
RECURSIVE Deviations(_, _)
Deviations(x, n) ==
    IF n = 0 THEN 0
    ELSE Deviations(x, n - 1)
           + (Len(x) * x[n] - Total(x, Len(x))) * (Len(x) * x[n] - Total(x, Len(x)))

BlocksReturned == bpc = "returned"

\* C13: with 1 <= B <= length of the series, the list of block means has
\* exactly B elements and the mean returned is the mean of that list.
C13_BlockCountAndMean ==
    (BlocksReturned /\ ba_n_blocks <= Len(ba_data)) =>
        /\ Len(block_means) = ba_n_blocks
        /\ \A i \in 1..Len(block_means) : block_means[i].den > 0
        /\ EqFrac(mean, MeanOfFractions(block_means))

\* blocks of unequal mean, with elements left over after the last block
C13_Witness ==
    /\ BlocksReturned
    /\ ba_n_blocks = 2
    /\ Len(ba_data) = 3
    /\ Len(block_means) = 2
    /\ block_means[1] # block_means[2]
    /\ mean.num > 0

\* C14: a non-empty series shorter than B gives the mean of the series,
\* the standard deviation of the series (its square here) and the list of
\* that one mean; nothing is divided by zero.
C14_ShortSeriesDegenerates ==
    (BlocksReturned /\ Len(ba_data) < ba_n_blocks) =>
        LET L == Len(ba_data)
            seriesMean == Frac(Total(ba_data, L), L)
            seriesVar == Frac(Deviations(ba_data, L), L * L * L) IN
        /\ EqFrac(mean, seriesMean)
        /\ EqFrac(stderr2, seriesVar)
        /\ Len(block_means) = 1
        /\ EqFrac(block_means[1], seriesMean)

\* two unequal values for three blocks
C14_Witness ==
    /\ BlocksReturned
    /\ ba_n_blocks = 3
    /\ Len(ba_data) = 2
    /\ ba_data[1] # ba_data[2]
    /\ stderr2.num > 0
    /\ Len(block_means) = 1

\* C15: with 2 <= B <= length of the series, the standard error is the
\* sample standard deviation of the B block means (squared deviations
\* divided by B - 1) over the square root of B; in squares, the sample
\* variance over B.
C15_SampleStandardError ==
    (BlocksReturned /\ ba_n_blocks >= 2 /\ ba_n_blocks <= Len(ba_data)) =>
        LET B == ba_n_blocks
            d == block_means[1].den
            nums == [i \in 1..B |-> block_means[i].num] IN
        EqFrac(stderr2, Frac(Deviations(nums, B), B * B * B * (B - 1) * d * d))

\* x[a] + ... + x[b]
RECURSIVE RangeTotal(_, _, _)
RangeTotal(x, a, b) == IF a > b THEN 0 ELSE x[a] + RangeTotal(x, a + 1, b)

\* C30: for L >= B the B blocks are the consecutive runs of floor(L/B)
\* elements from the start of the series, disjoint and in order; the last
\* L mod B elements are in no block, and the mean and the standard error
\* are those of the first B*floor(L/B) elements' blocks alone.
C30_TrailingElementsUnused ==
    (BlocksReturned /\ ba_n_blocks <= Len(ba_data)) =>
        LET B == ba_n_blocks
            size == Len(ba_data) \div B
            sums == [i \in 1..B |-> RangeTotal(ba_data, (i - 1) * size + 1, i * size)] IN
        /\ Len(block_means) = B
        /\ \A i \in 1..B : EqFrac(block_means[i], Frac(sums[i], size))
        /\ EqFrac(mean, Frac(RangeTotal(ba_data, 1, B * size), B * size))
        /\ EqFrac(stderr2, Frac(Deviations(sums, B), B * B * B * B * size * size))

\* two blocks of one element and a third element, the largest, in neither
C30_Witness ==
    /\ BlocksReturned
    /\ ba_n_blocks = 2
    /\ ba_data = <<0, 1, 2>>
    /\ block_means = <<Frac(0, 1), Frac(1, 1)>>
    /\ mean = Frac(1, 2)

\* ---------------------------------------- claims: the bias-decay analysis
\* the position (1-based) of column n_cols - 2 of a row of n_cols numbers;
\* with one column, index -1 is that column
HeightPosition(n_cols) == IF n_cols >= 2 THEN n_cols - 1 ELSE 1

FirstHeight == hills_table[1][HeightPosition(Len(hills_table[1]))]

LastHeight == hills_table[Len(hills_table)][HeightPosition(Len(hills_table[1]))]

\* what the dict holds besides the ratio
CountHeightsTime ==
    /\ hills_conv.n_gaussians = Len(hills_table)
    /\ hills_conv.h_initial = FirstHeight
    /\ hills_conv.h_final = LastHeight
    /\ hills_conv.total_time_ps = hills_table[Len(hills_table)][1]

\* C17 as stated: the ratio is last/first whenever the first height is
\* non-zero, and 0 when it is 0.
C17_Original ==
    hpc = "returned" =>
        /\ CountHeightsTime
        /\ EqFrac(hills_conv.h_ratio, RatioWheneverNonZero(FirstHeight, LastHeight))

\* C17: the height is read from column n_cols - 2; the dict holds the
\* number of rows, the first and the last height, the time of the last row,
\* and the ratio last/first when the first height is positive, 0 when the
\* first height is zero or negative.
C17_RatioOfPositiveFirstHeight ==
    hpc = "returned" =>
        /\ CountHeightsTime
        /\ FirstHeight > 0 => EqFrac(hills_conv.h_ratio, Frac(LastHeight, FirstHeight))
        /\ FirstHeight <= 0 => hills_conv.h_ratio.num = 0

\* three columns, the first height negative and the last one not zero
C17_Witness ==
    /\ hpc = "returned"
    /\ Len(hills_table) = 2
    /\ Len(hills_table[1]) = 3
    /\ hills_table[1] = <<0, -1, 2>>
    /\ hills_table[2] = <<2, 2, 0>>
    /\ hills_conv.h_ratio.num = 0
    /\ hills_conv.h_final = 2

\* C16: the report holds exactly one convergence verdict, decided by the
\* ratio of the last to the first height alone: "converged" below 0.01,
\* "partially converged" from 0.01 to below 0.1, "not converged" from 0.1.
C16_VerdictByRatio ==
    mainpc = "done" =>
        LET r == hills_conv.h_ratio
            first == hills_table[1][2]
            last == hills_table[Len(hills_table)][2]
            lines == {i \in 1..Len(convergence_report) :
                         convergence_report[i] \in
                             {"CONVERGIDO", "PARCIALMENTE CONVERGIDO", "NO CONVERGIDO"}} IN
        /\ first > 0 => EqFrac(r, Frac(last, first))
        /\ lines = {1}
        /\ convergence_report[1] = "CONVERGIDO" <=> 100 * r.num < r.den
        /\ convergence_report[1] = "PARCIALMENTE CONVERGIDO" <=>
               (100 * r.num >= r.den /\ 10 * r.num < r.den)
        /\ convergence_report[1] = "NO CONVERGIDO" <=> 10 * r.num >= r.den

\* a ratio of exactly 0.01
C16_Witness ==
    /\ mainpc = "done"
    /\ Len(hills_table) = 2
    /\ hills_table[1][2] = 1000
    /\ hills_table[2][2] = 10
    /\ convergence_report[1] = "PARCIALMENTE CONVERGIDO"

\* ------------------------------------------- claims: failures and warnings
\* C18 as stated: when the plumed executable cannot be located, main does
\* not abort; it skips the reconstruction, the DeltaG tracking and the
\* minimum detection, and writes the heights file and the report.
C18_AbsentToolSkipsFes ==
    plumed = "absent" =>
        /\ mainpc # "raised"
        /\ mainpc = "done" =>
              /\ deltaG_data = NoDeltaG
              /\ {"gaussian_heights.dat", "convergence_report.txt"} \subseteq written

\* a message on either stream
SomethingPrinted == stderr # <<>> \/ stdout # <<>>

\* C19 as stated, for the windows of the DeltaG tracker: no window's output
\* ends the run, and a window that gave no profile has left a message.
C19_WindowFailuresWarned ==
    /\ tpc # "exit1"
    /\ (\E i \in 1..Len(windows) : windows[i].status = "failed") => SomethingPrinted

\* the stability lines of the report
StabilityLines ==
    {i \in 1..Len(convergence_report) :
        convergence_report[i] \in {"DeltaG estable", "DeltaG inestable"}}

\* the standard deviation of the last three spans is below 2: the sum of
\* their squared deviations, over 3, is below 4
LastThreeStable ==
    LET dG == deltaG_data.deltaG
        x == SubSeq(dG, Len(dG) - 2, Len(dG)) IN
    Deviations(x, 3) < 4 * 27

\* C20 as stated: with at least 3 spans the report holds a stability
\* verdict, "stable" exactly when the standard deviation of the last 3 is
\* below 2.
C20_Original ==
    (mainpc = "done" /\ Len(deltaG_data.deltaG) >= 3) =>
        /\ Cardinality(StabilityLines) = 1
        /\ \A i \in StabilityLines :
              convergence_report[i] = "DeltaG estable" <=> LastThreeStable

\* C20: with more than 3 spans the report holds one stability verdict,
\* "stable" exactly when the population standard deviation of the last 3
\* spans is below 2 and "unstable" otherwise; with 3 spans or fewer it
\* holds none.
C20_VerdictFromFourSpans ==
    mainpc = "done" =>
        IF Len(deltaG_data.deltaG) > 3
        THEN /\ Cardinality(StabilityLines) = 1
             /\ \A i \in StabilityLines :
                   convergence_report[i] = "DeltaG estable" <=> LastThreeStable
        ELSE StabilityLines = {}

\* four spans, the last three 0, 0 and 5
C20_Witness ==
    /\ mainpc = "done"
    /\ deltaG_data.deltaG = <<5, 0, 0, 5>>
    /\ StabilityLines = {2}
    /\ convergence_report[2] = "DeltaG inestable"

\* ---------------------------------------------------- claims: the adapter
\* the rows (times, in ps) at or before h/2 ps
RECURSIVE UpTo(_, _)
UpTo(rows, h) ==
    IF rows = <<>> THEN <<>>
    ELSE IF 2 * Head(rows) <= h THEN <<Head(rows)>> \o UpTo(Tail(rows), h)
    ELSE UpTo(Tail(rows), h)

\* the output files of the commands that returned 0, in order
RECURSIVE Succeeded(_)
Succeeded(reqs) ==
    IF reqs = <<>> THEN <<>>
    ELSE IF Head(reqs).rc = 0 THEN <<Head(reqs).outfile>> \o Succeeded(Tail(reqs))
    ELSE Succeeded(Tail(reqs))

\* C22 as stated: without time bounds there is one request, for the whole
\* trajectory; with time bounds there is one request per bound, each over
\* the bias records up to that bound; the paths returned are those of the
\* requests that exited with status 0, in request order.
C22_RequestsPerBound ==
    spc = "returned" =>
        /\ fes_files = Succeeded(requests)
        /\ IF time_blocks.none
           THEN Len(requests) = 1 /\ requests[1].hills = hills_file
           ELSE /\ Len(requests) = Len(time_blocks.bounds)
                /\ \A i \in 1..Len(requests) :
                      requests[i].hills = UpTo(hills_file, time_blocks.bounds[i])

\* ------------------------------------------------------ claims: the plot
\* C23 as stated: a DeltaG-vs-time file of exactly one data row is read as
\* a table of 1 row and 2 columns, and the plot completes without an error.
C23_SingleRowPlotted ==
    (dg_file.exists /\ Len(dg_file.rows) = 1) =>
        /\ ppc # "raised"
        /\ ppc \in {"loaded", "columns", "returned"} => plot_data.shape = <<1, 2>>
        /\ ppc = "returned" => plotted.saved

\* ---------------------------------------------- claims: the atom selection
\* the string without its leading and trailing blanks
Trimmed(s) ==
    LET inked == {i \in 1..Len(s) : s[i] # " "} IN
    IF inked = {} THEN <<>>
    ELSE SubSeq(s, CHOOSE i \in inked : \A j \in inked : i <= j,
                   CHOOSE i \in inked : \A j \in inked : j <= i)

\* s[a..b] is a non-empty run of digits
Digits(s, a, b) == a <= b /\ \A i \in a..b : s[i] = "1"

\* a-b, both sides non-empty digit strings
IsRange(s) ==
    \E p \in 1..Len(s) : s[p] = "-" /\ Digits(s, 1, p - 1) /\ Digits(s, p + 1, Len(s))

\* every piece between commas is, blanks around it aside, a non-empty
\* digit string
IsList(s) ==
    LET cuts == {0, Len(s) + 1} \cup {i \in 1..Len(s) : s[i] = ","} IN
    \A a \in cuts \ {Len(s) + 1} :
        LET b == CHOOSE c \in cuts : c > a /\ \A d \in cuts : d > a => c <= d IN
        \E lo, hi \in (a + 1)..(b - 1) :
            /\ Digits(s, lo, hi)
            /\ \A i \in ((a + 1)..(lo - 1)) \cup ((hi + 1)..(b - 1)) : s[i] = " "

\* C24: validate_atom_selection returns True exactly when the trimmed
\* string is one range a-b of non-empty digit strings without a comma, or a
\* comma-separated list whose every part, trimmed, is a non-empty digit
\* string; False for every other string.
C24_RangeOrList ==
    vpc = "returned" =>
        (valid <=> (IsRange(Trimmed(atoms_str)) \/ IsList(Trimmed(atoms_str))))

\* a range with blanks around it is accepted
C24_Witness ==
    /\ vpc = "returned"
    /\ atoms_str = <<" ", "1", "-", "1", " ">>
    /\ valid

\* ---------------------------------------------- claims: concurrent runs
\* C25 as stated: of two runs at work on one machine, neither reads,
\* overwrites or deletes a temporary file the other created.
C25_TempFilesProcessLocal == foreign = {}

\* ------------------------------------------ claims: the outputs of a run
\* the full reconstruction of this run failed: run_sum_hills warned of it
ReconstructionFailed ==
    \E i \in 1..Len(stderr) : stderr[i] = [level |-> "WARNING", path |-> "sum_hills"]

\* C27 as stated: when the full reconstruction of this run fails, no minima
\* are detected or reported, whatever an earlier run left at FesPath.
C27_MinimaFromThisRun ==
    ReconstructionFailed => deltaG_data.minima = 0

\* C28: when the HILLS file has no data row, main ends before any result
\* is written: no heights file, no DeltaG file, no report, and no call of
\* the external program.
C28_NoRowsNothingWritten ==
    [][hills_table = <<>> =>
          /\ mainpc' = "exit1"
          /\ written' = {}
          /\ convergence_report' = <<>>
          /\ ~(ProbePlumed \/ FullReconstruction \/ TrackDeltaG)]_vars

\* a run ended by a HILLS file without a data row
C28_Witness ==
    /\ hills_table = <<>>
    /\ mainpc = "exit1"
    /\ stderr = <<[level |-> "ERROR", path |-> "HILLS"]>>
    /\ written = {}

====
